---- MODULE Spec2Model ----
(***************************************************************************)
(* The two patch scripts of the repository, fix_syntax_errors.py and       *)
(* fix_all_glossary.py.  Each reads one target file, applies regular       *)
(* expression substitutions to its text and writes the text back.          *)
(*                                                                         *)
(* Text is a sequence of tokens.  A token stands for a fixed run of        *)
(* characters (the TLA+ string that names it).  The tokens are cut so that *)
(* every character class of the patterns (not-quote, not-<, not->, quote,  *)
(* whitespace) holds all or none of a token's characters, and so that no   *)
(* literal of a pattern starts or ends inside a token; a match of a        *)
(* pattern on the characters is therefore a match on the tokens.           *)
(***************************************************************************)
EXTENDS Integers, Sequences, FiniteSets, TLC

VARIABLES
    script,         \* which script runs: "syntax" or "glossary"
    disk,           \* the target file: [exists, data]
    pc,             \* position of the script
    k,              \* index into fixes of the for loop (syntax)
    content,        \* the variable content
    fixed_content,  \* the variable fixed_content (glossary)
    written,        \* text handed to f.write
    out,            \* lines printed on standard output
    err,            \* the exception that ended the run, or NoError
    disk0,          \* history: the target file when the run started
    read0,          \* history: the text f.read() returned
    hist,           \* history: content after each rule of the loop
    compiled,       \* history: number of patterns handed to re.sub so far
    wattempt,       \* history: open(..., 'w') was called
    wopened,        \* history: open(..., 'w') succeeded
    orig,           \* history: the target file before the first run
    runs            \* number of the current run

vars == <<script, disk, pc, k, content, fixed_content, written, out, err,
          disk0, read0, hist, compiled, wattempt, wopened, orig, runs>>

(***************************** bounds **************************************)
MaxText == 2
MaxGap == 2
MaxRuns == 2

(***************************** tokens **************************************)
\* X is the letter X, standing for ordinary text.  BT is the backquote
\* character and BADBYTE a byte that is no text in the encoding of the read;
\* both are written by name.
IC       == "insertContent("
Q        == "'"
DQ       == "\""
X        == "X"
NL       == "\n"
SP       == " "
CR       == "\r"
BADBYTE  == "0xFF"
RUN      == ".run();"
RP       == ")"
RPSEMI   == ");"
GETPAGE  == "pagesQuery.getPageById("
SINGLE   == "single"
DOCUMENT == "document"
DIRECT   == "direct"
TIPTAP   == "TipTap"
THIRD    == "1/3"
SECOND   == "second"
MS300    == "300ms"
DEBOUNCE == "debounce"
VIA      == "via"
PROVIDER == "provider"
TOISO    == ".toISOString("
TOLOWER  == ".toLowerCase("
TITLE    == "item.title"
INCL     == ".includes("
LANG     == "lang.name"
BT       == "BACKTICK"
RBRACE   == "}"
ISACT    == "!editor.isActive("
TABLE    == "table"
CHAINPFX == "editor.chain().focus().deleteRange(range)."
LT       == "<"
SPAN     == "span"
GT       == ">"
CSPAN    == "/span"

Tokens ==
    {IC, Q, DQ, X, NL, SP, CR, BADBYTE, RUN, RP, RPSEMI, GETPAGE, SINGLE,
     DOCUMENT, DIRECT, TIPTAP, THIRD, SECOND, MS300, DEBOUNCE, VIA, PROVIDER,
     TOISO, TOLOWER, TITLE, INCL, LANG, BT, RBRACE, ISACT, TABLE, CHAINPFX,
     LT, SPAN, GT, CSPAN}

\* The back-reference \1 of a replacement template.
REF1 == "\\1"

(************************ character classes ********************************)
Space    == {SP, NL, CR}          \* \s
NotQuote == Tokens \ {Q}          \* [^']
NotGT    == Tokens \ {GT}         \* [^>]
NotLT    == Tokens \ {LT}         \* [^<]
Quotes   == {Q, DQ}               \* either quote character

(************************ pattern syntax ***********************************)
\* A pattern is a sequence of items: a set of tokens, a quantifier
\* ("1", "*" or "+", all greedy) and the number of the group it is (0: none).
Item(S, q, g) == [set |-> S, q |-> q, g |-> g]
Lit(t)   == Item({t}, "1", 0)
Lits(ts) == [i \in 1..Len(ts) |-> Lit(ts[i])]
One(S)   == Item(S, "1", 0)
Star(S)  == Item(S, "*", 0)
Plus(S)  == Item(S, "+", 0)
Group(S) == Item(S, "+", 1)       \* ( S+ )

Rule(p, r) == [pattern |-> p, replacement |-> r]

(************************ the rule lists ***********************************)
\* literal \s* \n
LitGapNL(ts) == Lits(ts) \o <<Star(Space), Lit(NL)>>

\* fix_syntax_errors.py, the entries of fixes.  The loop passes
\* flags=re.MULTILINE, which changes ^ and $ only; no pattern uses them.
fix1  == Rule(Lits(<<IC, Q>>) \o <<Group(NotQuote)>> \o Lits(<<Q, NL, RUN>>),
              <<IC, Q, REF1, Q, RP, RUN>>)
fix2  == Rule(Lits(<<IC, Q>>) \o <<Group(NotQuote)>>
                  \o <<Lit(Q), Plus(Space), Lit(RUN)>>,
              <<IC, Q, REF1, Q, RP, RUN>>)
fix3  == Rule(LitGapNL(<<GETPAGE>>), <<GETPAGE, RP, NL>>)
fix4  == Rule(LitGapNL(<<SINGLE, SP, DOCUMENT>>),
              <<SINGLE, SP, DOCUMENT, RP, NL>>)
fix5  == Rule(LitGapNL(<<DIRECT, SP, TIPTAP>>), <<DIRECT, SP, TIPTAP, RP, NL>>)
fix6  == Rule(LitGapNL(<<THIRD, SP, SECOND>>), <<THIRD, SP, SECOND, RP, NL>>)
fix7  == Rule(LitGapNL(<<MS300, SP, DEBOUNCE>>),
              <<MS300, SP, DEBOUNCE, RP, NL>>)
fix8  == Rule(LitGapNL(<<VIA, SP, PROVIDER>>), <<VIA, SP, PROVIDER, RP, NL>>)
fix9  == Rule(LitGapNL(<<TOISO>>), <<TOISO, RP, NL>>)
fix10 == Rule(LitGapNL(<<TOLOWER>>), <<TOLOWER, RP, RP, NL>>)
fix11 == Rule(LitGapNL(<<TITLE>>) \o <<Star(Space), Lit(RPSEMI)>>,
              <<TITLE, RP>>)
fix12 == Rule(LitGapNL(<<INCL, TITLE>>) \o <<Star(Space), Lit(RPSEMI)>>,
              <<INCL, TITLE, RP>>)
fix13 == Rule(LitGapNL(<<LANG, BT>>), <<LANG, RBRACE, BT, RP>>)
fix14 == Rule(LitGapNL(<<ISACT, Q, TABLE, Q>>), <<ISACT, Q, TABLE, Q, RP>>)

\* fixes with the closing parenthesis left out of the first replacement
fixes_Rule1NoParen ==
    <<Rule(fix1.pattern, <<IC, Q, REF1, Q, RUN>>), fix2, fix3, fix4, fix5,
      fix6, fix7, fix8, fix9, fix10, fix11, fix12, fix13, fix14>>

\* fixes with the item.title rule and the .includes(item.title rule swapped
fixes_FilterSwapped ==
    <<fix1, fix2, fix3, fix4, fix5, fix6, fix7, fix8, fix9, fix10, fix12,
      fix11, fix13, fix14>>

\* fixes with the closing parenthesis left out of the third replacement,
\* which then writes what it matched
fixes_Rule3NoParen ==
    <<fix1, fix2, Rule(fix3.pattern, <<GETPAGE, NL>>), fix4, fix5, fix6,
      fix7, fix8, fix9, fix10, fix11, fix12, fix13, fix14>>

\* fix_syntax_errors.py, fixes
fixes ==
    <<fix1, fix2, fix3, fix4, fix5, fix6, fix7, fix8, fix9, fix10, fix11,
      fix12, fix13, fix14>>

\* the glossary pattern with the double quote left out of the quote classes
pattern_SingleQuoteOnly ==
    Lits(<<CHAINPFX, IC>>) \o <<Star(Space), Lit(Q)>> \o Lits(<<LT, SPAN>>)
    \o <<Star(NotGT), Lit(GT), Group(NotLT)>> \o Lits(<<LT, CSPAN, GT>>)
    \o <<Lit(Q)>>

\* fix_all_glossary.py, pattern and replacement
pattern ==
    Lits(<<CHAINPFX, IC>>) \o <<Star(Space), One(Quotes)>> \o Lits(<<LT, SPAN>>)
    \o <<Star(NotGT), Lit(GT), Group(NotLT)>> \o Lits(<<LT, CSPAN, GT>>)
    \o <<One(Quotes)>>

replacement == <<CHAINPFX, IC, Q, REF1, Q, RP>>

glossary == Rule(pattern, replacement)

(************************ re.sub *******************************************)
NoMatch == [ok |-> FALSE, end |-> 0, cap |-> <<>>]

\* Number of consecutive tokens of s from pos on that lie in S.
RECURSIVE RunLen(_, _, _)
RunLen(S, s, pos) ==
    IF pos > Len(s) \/ s[pos] \notin S THEN 0 ELSE 1 + RunLen(S, s, pos + 1)

Min(a, b) == IF a < b THEN a ELSE b

\* The backtracking matcher: items i.. of pat against s from pos.  A
\* quantified item takes the longest run first and gives tokens back one at
\* a time until the rest of the pattern matches.
RECURSIVE MatchItems(_, _, _, _)
RECURSIVE TryCounts(_, _, _, _, _, _)
TryCounts(pat, i, s, pos, n, lo) ==
    LET r == MatchItems(pat, i + 1, s, pos + n)
    IN  IF r.ok
        THEN IF pat[i].g = 1
             THEN [r EXCEPT !.cap = SubSeq(s, pos, pos + n - 1)]
             ELSE r
        ELSE IF n > lo THEN TryCounts(pat, i, s, pos, n - 1, lo) ELSE NoMatch

MatchItems(pat, i, s, pos) ==
    IF i > Len(pat) THEN [ok |-> TRUE, end |-> pos, cap |-> <<>>]
    ELSE LET run == RunLen(pat[i].set, s, pos)
             hi  == IF pat[i].q = "1" THEN Min(run, 1) ELSE run
             lo  == IF pat[i].q = "*" THEN 0 ELSE 1
         IN  IF hi < lo THEN NoMatch ELSE TryCounts(pat, i, s, pos, hi, lo)

\* pattern.match at position pos
MatchAt(pat, s, pos) == MatchItems(pat, 1, s, pos)

\* re.search(pat, s) is not None
Search(pat, s) == \E pos \in 1..Len(s) : MatchAt(pat, s, pos).ok

\* The replacement template with \1 filled in.
RECURSIVE Expand(_, _)
Expand(repl, cap) ==
    IF repl = <<>> THEN <<>>
    ELSE (IF Head(repl) = REF1 THEN cap ELSE <<Head(repl)>>)
         \o Expand(Tail(repl), cap)

\* re.sub: every non-overlapping match, leftmost first, is replaced; the
\* scan goes on behind the match.  (No pattern here matches the empty string.)
RECURSIVE SubFrom(_, _, _, _)
SubFrom(pat, repl, s, pos) ==
    IF pos > Len(s) THEN <<>>
    ELSE LET m == MatchAt(pat, s, pos)
         IN  IF m.ok
             THEN Expand(repl, m.cap) \o SubFrom(pat, repl, s, m.end)
             ELSE <<s[pos]>> \o SubFrom(pat, repl, s, pos + 1)

re_sub(pat, repl, s) == SubFrom(pat, repl, s, 1)

\* What re.sub checks before it substitutes: the pattern compiles (every
\* quantifier has something to repeat) and the template refers only to
\* groups the pattern has.  re.error otherwise.
Compiles(rule) ==
    /\ \A i \in 1..Len(rule.pattern) :
          /\ rule.pattern[i].set # {}
          /\ rule.pattern[i].q \in {"1", "*", "+"}
    /\ (\E i \in 1..Len(rule.replacement) : rule.replacement[i] = REF1)
          => \E i \in 1..Len(rule.pattern) : rule.pattern[i].g = 1

(************************ the file system **********************************)
\* open(path, 'r') reads with universal newlines: \r\n and \r become \n.
RECURSIVE Decode(_)
Decode(data) ==
    IF data = <<>> THEN <<>>
    ELSE IF Head(data) = CR
         THEN IF Len(data) > 1 /\ data[2] = NL
              THEN <<NL>> \o Decode(Tail(Tail(data)))
              ELSE <<NL>> \o Decode(Tail(data))
         ELSE <<Head(data)>> \o Decode(Tail(data))

\* f.read() raises UnicodeDecodeError on a byte that is no text.
Decodable(data) == \A i \in 1..Len(data) : data[i] # BADBYTE

\* os.linesep of the platform of the hard-coded path (/Users/...).
linesep == <<NL>>

\* open(path, 'w') writes \n as os.linesep.
RECURSIVE Encode(_)
Encode(s) ==
    IF s = <<>> THEN <<>>
    ELSE (IF Head(s) = NL THEN linesep ELSE <<Head(s)>>) \o Encode(Tail(s))

NoFile      == [exists |-> FALSE, data |-> <<>>]
File(d)     == [exists |-> TRUE, data |-> d]
NoError     == [type |-> "none", at |-> "none"]
Error(t, a) == [type |-> t, at |-> a]

\* The rules the running script applies.
Rules == IF script = "syntax" THEN fixes ELSE <<glossary>>

\* The completion message of the running script.
Message == IF script = "syntax" THEN "Fixed syntax errors!"
           ELSE "Fixed all glossary terms!"

\* The text the running script writes back.
Output == IF script = "syntax" THEN content ELSE fixed_content

(************************ the documents ************************************)
SeqsUpTo(S, n) == UNION {[1..m -> S] : m \in 0..n}

Gaps  == SeqsUpTo({NL, SP}, MaxGap)
Heads == {<<GETPAGE>>, <<SINGLE, SP, DOCUMENT>>, <<DIRECT, SP, TIPTAP>>,
          <<THIRD, SP, SECOND>>, <<MS300, SP, DEBOUNCE>>,
          <<VIA, SP, PROVIDER>>, <<TOISO>>, <<TOLOWER>>, <<LANG, BT>>,
          <<ISACT, Q, TABLE, Q>>}

\* insertContent('...' <gap> .run();  -- rules 1 and 2
DocsInsert ==
    {pre \o <<IC, Q>> \o t \o <<Q>> \o g \o tail :
        pre \in {<<>>, <<CHAINPFX>>}, t \in SeqsUpTo({X, NL, Q}, MaxText),
        g \in Gaps, tail \in {<<RUN>>, <<RP, RUN>>}}

\* <literal> <gap>  -- rules 3 to 10, 13 and 14
DocsComment ==
    {h \o g \o t : h \in Heads, g \in Gaps, t \in {<<>>, <<X>>}}

\* item.title <gap> );  -- rules 11 and 12, after rule 10
DocsFilter ==
    {pre \o <<TITLE>> \o g \o ind \o tail :
        pre \in {<<>>, <<INCL>>, <<TOLOWER, NL, INCL>>}, g \in Gaps,
        ind \in {<<>>, <<SP>>}, tail \in {<<RPSEMI>>, <<RP>>}}

\* ...insertContent( '<span ...>text</span>')  -- the glossary rule
DocsGlossary ==
    {pre \o <<CHAINPFX, IC>> \o ws \o <<q1, LT, SPAN>> \o attrs \o <<GT>>
         \o text \o <<LT, CSPAN, GT>> \o q2 \o <<RP>> :
        pre \in {<<>>, <<CHAINPFX, IC, Q, LT, SPAN, SP>>},
        ws \in {<<>>, <<NL>>}, q1 \in Quotes,
        attrs \in {<<>>, <<SP, X>>}, text \in SeqsUpTo({X, GT, Q}, MaxText),
        q2 \in {<<Q>>, <<DQ>>, <<>>}}

\* plain text, blank text, the empty file, foreign line ends, bad bytes
DocsPlain == SeqsUpTo({X, SP, NL, CR, BADBYTE}, MaxText)

\* one broken construct for each rule, and the two glossary calls
Constructs ==
    {<<IC, Q, X, Q, NL, RUN>>, <<IC, Q, X, Q, SP, RUN>>,
     <<TITLE, NL, SP, RPSEMI>>, <<INCL, TITLE, NL, RPSEMI>>,
     <<CHAINPFX, IC, Q, LT, SPAN, GT, X, LT, CSPAN, GT, Q, RP>>,
     <<CHAINPFX, IC, DQ, LT, SPAN, SP, X, GT, X, LT, CSPAN, GT, DQ, RP, NL,
       RUN>>}
    \cup {h \o <<NL>> : h \in Heads}

DocsPairs == {a \o b : a \in Constructs, b \in Constructs}

Docs == DocsInsert \cup DocsComment \cup DocsFilter \cup DocsGlossary
            \cup DocsPlain \cup DocsPairs

(************************ the scripts **************************************)
Init ==
    /\ script \in {"syntax", "glossary"}
    /\ disk \in {NoFile} \cup {File(d) : d \in Docs}
    /\ pc = "start"
    /\ k = 1
    /\ content = <<>>
    /\ fixed_content = <<>>
    /\ written = <<>>
    /\ out = <<>>
    /\ err = NoError
    /\ disk0 = disk
    /\ read0 = <<>>
    /\ hist = <<>>
    /\ compiled = 0
    /\ wattempt = FALSE
    /\ wopened = FALSE
    /\ orig = disk
    /\ runs = 1

\* An uncaught exception ends the script.
Raise(t, a) ==
    /\ err' = Error(t, a)
    /\ pc' = "failed"

\* with open(path, 'r'): the file does not exist
ReadMissing ==
    /\ pc = "start"
    /\ ~disk.exists
    /\ Raise("FileNotFoundError", "open_r")
    /\ UNCHANGED <<script, disk, k, content, fixed_content, written, out,
                   disk0, read0, hist, compiled, wattempt, wopened, orig, runs>>

\* with open(path, 'r'): the file may not be read
ReadDenied ==
    /\ pc = "start"
    /\ disk.exists
    /\ Raise("PermissionError", "open_r")
    /\ UNCHANGED <<script, disk, k, content, fixed_content, written, out,
                   disk0, read0, hist, compiled, wattempt, wopened, orig, runs>>

\* The read step of a script that opens the target with a truncating mode
\* before it reads.
ReadUndecodable_Truncating ==
    /\ pc = "start"
    /\ disk.exists
    /\ ~Decodable(disk.data)
    /\ disk' = File(<<>>)
    /\ Raise("UnicodeDecodeError", "read")
    /\ UNCHANGED <<script, k, content, fixed_content, written, out, disk0,
                   read0, hist, compiled, wattempt, wopened, orig, runs>>

\* f.read(): the bytes are no text
ReadUndecodable ==
    /\ pc = "start"
    /\ disk.exists
    /\ ~Decodable(disk.data)
    /\ Raise("UnicodeDecodeError", "read")
    /\ UNCHANGED <<script, disk, k, content, fixed_content, written, out,
                   disk0, read0, hist, compiled, wattempt, wopened, orig, runs>>

\* content = f.read()
ReadFile ==
    /\ pc = "start"
    /\ disk.exists
    /\ Decodable(disk.data)
    /\ content' = Decode(disk.data)
    /\ read0' = content'
    /\ pc' = "sub"
    /\ UNCHANGED <<script, disk, k, fixed_content, written, out, err, disk0,
                   hist, compiled, wattempt, wopened, orig, runs>>

\* The loop of a script that substitutes in the text as read every time.
Substitute_OnOriginal ==
    /\ pc = "sub"
    /\ script = "syntax"
    /\ k <= Len(fixes)
    /\ compiled' = compiled + 1
    /\ content' = re_sub(fixes[k].pattern, fixes[k].replacement, read0)
    /\ hist' = Append(hist, content')
    /\ k' = k + 1
    /\ pc' = IF k = Len(fixes) THEN "write" ELSE "sub"
    /\ UNCHANGED <<script, disk, fixed_content, written, out, err, disk0,
                   read0, wattempt, wopened, orig, runs>>

\* for pattern, replacement in fixes: content = re.sub(pattern, replacement, content)
Substitute ==
    /\ pc = "sub"
    /\ script = "syntax"
    /\ k <= Len(fixes)
    /\ compiled' = compiled + 1
    /\ IF Compiles(fixes[k])
       THEN /\ content' = re_sub(fixes[k].pattern, fixes[k].replacement, content)
            /\ hist' = Append(hist, content')
            /\ k' = k + 1
            /\ pc' = IF k = Len(fixes) THEN "write" ELSE "sub"
            /\ err' = err
       ELSE /\ Raise("re.error", "re.sub")
            /\ UNCHANGED <<content, hist, k>>
    /\ UNCHANGED <<script, disk, fixed_content, written, out, disk0, read0,
                   wattempt, wopened, orig, runs>>

\* fixed_content = re.sub(pattern, replacement, content)
SubstituteGlossary ==
    /\ pc = "sub"
    /\ script = "glossary"
    /\ compiled' = compiled + 1
    /\ IF Compiles(glossary)
       THEN /\ fixed_content' = re_sub(pattern, replacement, content)
            /\ pc' = "write"
            /\ err' = err
       ELSE /\ Raise("re.error", "re.sub")
            /\ UNCHANGED fixed_content
    /\ UNCHANGED <<script, disk, k, content, written, out, disk0, read0, hist,
                   wattempt, wopened, orig, runs>>

\* The open of a script that opens the target for writing before the
\* substitutions are through.
OpenWrite_Early ==
    /\ pc \in {"sub", "write"}
    /\ wattempt' = TRUE
    /\ wopened' = TRUE
    /\ disk' = File(<<>>)
    /\ pc' = "opened"
    /\ UNCHANGED <<script, k, content, fixed_content, written, out, err,
                   disk0, read0, hist, compiled, orig, runs>>

\* with open(path, 'w'): the file is created or cut to length 0
OpenWrite ==
    /\ pc = "write"
    /\ wattempt' = TRUE
    /\ wopened' = TRUE
    /\ disk' = File(<<>>)
    /\ pc' = "opened"
    /\ UNCHANGED <<script, k, content, fixed_content, written, out, err,
                   disk0, read0, hist, compiled, orig, runs>>

\* with open(path, 'w'): the file may not be written
OpenWriteDenied ==
    /\ pc = "write"
    /\ wattempt' = TRUE
    /\ Raise("PermissionError", "open_w")
    /\ UNCHANGED <<script, disk, k, content, fixed_content, written, out,
                   disk0, read0, hist, compiled, wopened, orig, runs>>

\* Leading white space of a text removed.
RECURSIVE LStrip(_)
LStrip(s) == IF s # <<>> /\ Head(s) \in Space THEN LStrip(Tail(s)) ELSE s

\* The write of a script that writes the text stripped of leading white space.
WriteFile_Stripped ==
    /\ pc = "opened"
    /\ written' = LStrip(Output)
    /\ \E n \in 0..Len(Encode(written')) :
          disk' = File(SubSeq(Encode(written'), 1, n))
    /\ pc' = "wrote"
    /\ UNCHANGED <<script, k, content, fixed_content, out, err, disk0, read0,
                   hist, compiled, wattempt, wopened, orig, runs>>

\* f.write(...): the text goes to the buffer of f; as much of it as the
\* buffer has passed on is in the file.
WriteFile ==
    /\ pc = "opened"
    /\ written' = Output
    /\ \E n \in 0..Len(Encode(Output)) :
          disk' = File(SubSeq(Encode(Output), 1, n))
    /\ pc' = "wrote"
    /\ UNCHANGED <<script, k, content, fixed_content, out, err, disk0, read0,
                   hist, compiled, wattempt, wopened, orig, runs>>

\* leaving the with block closes f, which flushes the buffer
CloseFile ==
    /\ pc = "wrote"
    /\ disk' = File(Encode(written))
    /\ pc' = "closed"
    /\ UNCHANGED <<script, k, content, fixed_content, written, out, err,
                   disk0, read0, hist, compiled, wattempt, wopened, orig, runs>>

\* print("Fixed ...")
PrintDone ==
    /\ pc = "closed"
    /\ out' = Append(out, Message)
    /\ pc' = "done"
    /\ UNCHANGED <<script, disk, k, content, fixed_content, written, err,
                   disk0, read0, hist, compiled, wattempt, wopened, orig, runs>>

\* The process is killed between two steps; nothing is flushed.
Kill ==
    /\ pc \in {"sub", "write", "opened", "wrote", "closed"}
    /\ pc' = "killed"
    /\ UNCHANGED <<script, disk, k, content, fixed_content, written, out, err,
                   disk0, read0, hist, compiled, wattempt, wopened, orig, runs>>

\* The script is started again on the file it has patched.
Rerun ==
    /\ pc = "done"
    /\ runs < MaxRuns
    /\ runs' = runs + 1
    /\ pc' = "start"
    /\ k' = 1
    /\ content' = <<>>
    /\ fixed_content' = <<>>
    /\ written' = <<>>
    /\ out' = <<>>
    /\ disk0' = disk
    /\ read0' = <<>>
    /\ hist' = <<>>
    /\ compiled' = 0
    /\ wattempt' = FALSE
    /\ wopened' = FALSE
    /\ UNCHANGED <<script, disk, err, orig>>

Next ==
    \/ ReadMissing
    \/ ReadDenied
    \/ ReadUndecodable
    \/ ReadFile
    \/ Substitute
    \/ SubstituteGlossary
    \/ OpenWrite
    \/ OpenWriteDenied
    \/ WriteFile
    \/ CloseFile
    \/ PrintDone
    \/ Kill

Spec == Init /\ [][Next]_vars

NextRerun == Next \/ Rerun

SpecRerun == Init /\ [][NextRerun]_vars

(************************ what the claims speak of *************************)
\* The rules i.. of a list applied one after another, each to the result of
\* the one before.
RECURSIVE ApplyRules(_, _, _)
ApplyRules(rules, i, s) ==
    IF i > Len(rules) THEN s
    ELSE ApplyRules(rules, i + 1,
                    re_sub(rules[i].pattern, rules[i].replacement, s))

\* Some pattern of the list matches somewhere in s.
AnyMatch(rules, s) == \E i \in 1..Len(rules) : Search(rules[i].pattern, s)

\* t holds u as a contiguous part.
Contains(t, u) ==
    \E i \in 0..(Len(t) - Len(u)) : SubSeq(t, i + 1, i + Len(u)) = u

\* f.read() has returned.
ReadDone == pc # "start" /\ err.at \notin {"open_r", "read"}

\* The substitutions are through.
SubDone == pc \in {"write", "opened", "wrote", "closed", "done"}
              \/ (pc = "failed" /\ err.at = "open_w")

\* f.write has been called / the with block of the write is left.
WriteDone == pc \in {"wrote", "closed", "done"}
Closed    == pc \in {"closed", "done"}

\* C1: the text fix_syntax_errors writes back is the result of the 14 rules
\* applied in list order, rule j to the output of rule j-1 (rule 1 to the
\* text read), none skipped, repeated or reordered.
C1_SequentialApplication ==
    script = "syntax" =>
        /\ pc \in {"sub", "write"} =>
              /\ content = IF hist = <<>> THEN read0 ELSE hist[Len(hist)]
              /\ \A j \in 1..Len(hist) :
                    hist[j] = re_sub(fixes[j].pattern, fixes[j].replacement,
                                     IF j = 1 THEN read0 ELSE hist[j - 1])
        /\ SubDone => Len(hist) = Len(fixes)
        /\ Closed =>
              /\ written = ApplyRules(fixes, 1, read0)
              /\ disk = File(Encode(written))

\* C1 witness: a finished run in which two different rules changed the text.
C1_Witness ==
    /\ script = "syntax"
    /\ pc = "done"
    /\ \E i, j \in 2..Len(hist) :
          i < j /\ hist[i] # hist[i - 1] /\ hist[j] # hist[j - 1]

\* C2: a failure before the write step (file missing, read denied, text
\* undecodable, pattern error raised by re.sub) ends the run with the target
\* never opened for writing, its content as before the run, and no
\* completion message printed.
C2_FailureBeforeWriteKeepsFile ==
    (pc = "failed" /\ err.at \in {"open_r", "read", "re.sub"}) =>
        /\ ~wattempt
        /\ ~wopened
        /\ disk = disk0
        /\ out = <<>>

\* C2 witness: a run that failed on an undecodable, non-empty file.
C2_Witness ==
    /\ pc = "failed"
    /\ err.type = "UnicodeDecodeError"
    /\ disk0.data # <<>>

\* C3 as claimed: every pattern is checked before any file operation, so no
\* file operation precedes the detection of an invalid pattern.
C3_PatternsCheckedBeforeIO ==
    ReadDone => compiled = Len(Rules)

\* C3 as amended: a pattern is checked when re.sub is called with it, after
\* the target has been read and before it is opened for writing; a pattern
\* error leaves the target unopened for writing and unchanged.
C3_PatternsCheckedAfterReadBeforeWrite ==
    /\ compiled > 0 => ReadDone
    /\ wattempt => compiled = Len(Rules)
    /\ err.type = "re.error" => (ReadDone /\ ~wattempt /\ disk = disk0)

\* C3 witness: in the middle of the loop the target has been read, some
\* patterns have been checked, others not yet, and nothing is written.
C3_Witness ==
    /\ pc = "sub"
    /\ read0 # <<>>
    /\ 0 < compiled
    /\ compiled < Len(Rules)
    /\ ~wattempt

\* C4: at every point of a run the target file holds either the original
\* content or the fully patched content.
C4_NoPartialContent ==
    \/ disk = disk0
    \/ disk = File(Encode(ApplyRules(Rules, 1, Decode(disk0.data))))

\* C5: when no pattern matches the text read, the run raises no error of its
\* own and the text written back equals the text read.  (Stated as: the text
\* is kept and no error is raised, or else some pattern matches.)
C5_NoMatchWrittenUnchanged ==
    ReadDone =>
        \/ /\ content = read0
           /\ (script = "glossary" /\ SubDone) => fixed_content = read0
           /\ pc = "failed" => err.at = "open_w"
           /\ WriteDone => written = read0
           /\ Closed => disk = File(Encode(read0))
        \/ AnyMatch(Rules, read0)

\* C5 witness: a finished run on a file of white space only.
C5_Witness ==
    /\ pc = "done"
    /\ read0 # <<>>
    /\ \A i \in 1..Len(read0) : read0[i] \in Space
    /\ written = read0

Scenario1      == <<IC, Q, X, Q, NL, RUN>>
Scenario1Fixed == <<IC, Q, X, Q, RP, RUN>>

\* C6: fix_syntax_errors on insertContent('X' newline .run(); yields
\* insertContent('X').run(); -- the first rule joins the lines and the other
\* 13 rules leave the result alone.
C6_Scenario1 ==
    (script = "syntax" /\ ReadDone /\ read0 = Scenario1) =>
        /\ \A j \in 1..Len(hist) : hist[j] = Scenario1Fixed
        /\ WriteDone => written = Scenario1Fixed
        /\ Closed => disk = File(Scenario1Fixed)

\* C6 witness: the finished run on that file.
C6_Witness ==
    /\ script = "syntax"
    /\ pc = "done"
    /\ read0 = Scenario1
    /\ Len(hist) = 14
    /\ disk = File(Scenario1Fixed)

\* The text TEXT of the call ...insertContent( <white space> QUOTE <span ...>
\* TEXT </span> QUOTE that starts at p, or <<>> when none starts there.
CallTextAt(s, p) ==
    LET q == p + 2 + RunLen(Space, s, p + 2)
        a == q + 3 + RunLen(NotGT, s, q + 3)
        b == a + 1 + RunLen(NotLT, s, a + 1)
    IN  IF /\ b + 3 <= Len(s)
           /\ s[p] = CHAINPFX /\ s[p + 1] = IC
           /\ s[q] \in Quotes /\ s[q + 1] = LT /\ s[q + 2] = SPAN
           /\ s[a] = GT
           /\ b > a + 1
           /\ s[b] = LT /\ s[b + 1] = CSPAN /\ s[b + 2] = GT
           /\ s[b + 3] = s[q]
        THEN SubSeq(s, a + 1, b - 1)
        ELSE <<>>

\* C7: for every such call in the file, fix_all_glossary yields the call
\* with the argument reduced to 'TEXT'.
C7_GlossaryCallReduced ==
    (script = "glossary" /\ (pc = "write" \/ Closed)) =>
        \A p \in 1..Len(read0) :
            CallTextAt(read0, p) # <<>> =>
                /\ Contains(fixed_content,
                            <<CHAINPFX, IC, Q>> \o CallTextAt(read0, p) \o <<Q>>)
                /\ Closed =>
                      Contains(disk.data,
                               <<CHAINPFX, IC, Q>> \o CallTextAt(read0, p) \o <<Q>>)

\* C7 witness: a finished run on a file with a double-quoted call, white
\* space before the quote.
C7_Witness ==
    /\ script = "glossary"
    /\ pc = "done"
    /\ \E p \in 1..Len(read0) :
          /\ CallTextAt(read0, p) # <<>>
          /\ read0[p + 2] \in Space
          /\ read0[p + 3] = DQ

RECURSIVE MatchSpans(_, _, _)
MatchSpans(pat, s, pos) ==
    IF pos > Len(s) THEN <<>>
    ELSE LET m == MatchAt(pat, s, pos)
         IN  IF m.ok THEN <<(<<pos, m.end>>)>> \o MatchSpans(pat, s, m.end)
             ELSE MatchSpans(pat, s, pos + 1)

\* Opening minus closing parentheses of a token and of a text.
Parens(t) ==
    IF t \in {IC, GETPAGE, TOISO, TOLOWER, INCL, ISACT} THEN 1
    ELSE IF t \in {RP, RPSEMI} THEN -1 ELSE 0

RECURSIVE Balance(_)
Balance(s) == IF s = <<>> THEN 0 ELSE Parens(Head(s)) + Balance(Tail(s))

\* The text before the first replaced span and behind the last one is kept.
FrameKept(pat, s, t) ==
    LET sp == MatchSpans(pat, s, 1)
    IN  sp # <<>> =>
          LET first == sp[1][1]
              last  == sp[Len(sp)][2]
          IN  /\ SubSeq(t, 1, first - 1) = SubSeq(s, 1, first - 1)
              /\ SubSeq(t, Len(t) - (Len(s) - last), Len(t))
                    = SubSeq(s, last, Len(s))

\* C9: a substitution of fix_all_glossary changes the matched span only, and
\* the parentheses stay balanced: a call closed by one ) is still closed by
\* one ).
C9_FrameAndParentheses ==
    (script = "glossary" /\ SubDone) =>
        /\ FrameKept(pattern, read0, fixed_content)
        /\ Balance(fixed_content) = Balance(read0)

\* The frame part of C9 alone.
C9_FrameOnly ==
    (script = "glossary" /\ SubDone) =>
        FrameKept(pattern, read0, fixed_content)

\* fixes without its 12th rule
fixesWithout12 ==
    <<fix1, fix2, fix3, fix4, fix5, fix6, fix7, fix8, fix9, fix10, fix11,
      fix13, fix14>>

\* C10: the 12th rule never changes the text: after the 11th rule nothing
\* matches the 12th pattern, and the text written is what the list without
\* the 12th rule yields.
C10_Rule12NeverApplies ==
    script = "syntax" =>
        /\ (pc = "sub" /\ k = 12) => ~Search(fixes[12].pattern, content)
        /\ Len(hist) >= 12 => hist[12] = hist[11]
        /\ Closed => written = ApplyRules(fixesWithout12, 1, read0)

\* C10 witness: a finished run on a file the 12th pattern matches.
C10_Witness ==
    /\ script = "syntax"
    /\ pc = "done"
    /\ Search(fix12.pattern, read0)
    /\ hist[11] # hist[10]

====
